---- MODULE Spec2Model ----
(***************************************************************************)
(* A model of src/api/ashare.py: TushareDataHandler's four fetch           *)
(* operations (sequential / combined request, price / factor data), the    *)
(* long-to-wide reshaping they share, and the benchmark net-value series.  *)
(*                                                                         *)
(* The remote provider (tushare) is the environment: it owns `market`, the *)
(* rows it has, and answers every call with those rows in an order of its  *)
(* own choosing, may fail a call, and may cut a combined answer short.     *)
(* pandas is modelled by what the calls used here do to an index and to    *)
(* the cells; floating point is modelled as exact arithmetic.              *)
(***************************************************************************)
EXTENDS Integers, Sequences, FiniteSets, TLC

VARIABLES
    market,      \* provider: the rows it holds, <<symbol, day number, copy>>
    stock_list,  \* argument stock_list
    fields,      \* argument fields / factors
    kind,        \* "price" (daily) or "factor" (daily_basic)
    todo,        \* the operations the caller still invokes, the current one first
    last,        \* the operation that ended last: "sequential", "batch", "index"
    i,           \* sequential loop: symbols fetched so far
    all_data,    \* sequential loop: accumulated frames (rows, in order)
    seqCalls,    \* remote calls issued by the sequential operation, with
                 \* whether each one succeeded
    batCalls,    \* remote calls issued by the combined operation, likewise
    long,        \* the long table the last operation handed to reshaping
    reshaped,    \* whether the last operation ran the reshaping stage
    seqResult,   \* what the sequential operation returned / raised
    batResult,   \* what the combined operation returned / raised
    truncated,   \* whether the provider cut the combined answer short
    raw,         \* index_daily response (rows in provider order)
    benchmark    \* what get_index_prices_from_tushare returned / raised

vars == <<market, stock_list, fields, kind, todo, last, i, all_data, seqCalls, batCalls,
          long, reshaped, seqResult, batResult, truncated, raw, benchmark>>

(***************************************************************************)
(* Bounds                                                                  *)
(***************************************************************************)
MaxDate == 3   \* trading days the provider knows
MaxRows == 3   \* rows the provider holds (duplicates included)
MaxLen == 3    \* rows of an index_daily response

Symbols == {"AAA", "BBB"}
Days == 1..MaxDate
\* get_index_list hands out a de-duplicated list; a caller's own list may
\* name a symbol twice
UniqueStockLists == {<<"AAA">>, <<"BBB", "AAA">>}
StockLists == UniqueStockLists \cup {<<"AAA", "BBB">>, <<"AAA", "AAA">>}
FieldChoices == {<<"close">>, <<"vol", "close">>, <<"total_mv">>, <<"pb", "total_mv">>}
\* pct_chg in units of half a percent: 0.5, -1.0, 2.0
PctValues == {1, -2, 4}
PctUnit == 200

(***************************************************************************)
(* Sequences                                                               *)
(***************************************************************************)
Range(s) == {s[n] : n \in DOMAIN s}

RECURSIVE PermSeqs(_)
PermSeqs(S) ==
    IF S = {} THEN {<<>>}
    ELSE UNION {{<<x>> \o p : p \in PermSeqs(S \ {x})} : x \in S}

RECURSIVE SeqsUpTo(_, _)
SeqsUpTo(S, n) ==
    IF n = 0 THEN {<<>>}
    ELSE LET shorter == SeqsUpTo(S, n - 1)
         IN shorter \cup {Append(s, x) : s \in {t \in shorter : Len(t) = n - 1}, x \in S}

Count(s, x) == Cardinality({n \in DOMAIN s : s[n] = x})
HasDup(s) == \E a, b \in DOMAIN s : a < b /\ s[a] = s[b]
FirstPos(s, x) == CHOOSE n \in DOMAIN s : s[n] = x /\ \A m \in 1..(n - 1) : s[m] # x

\* first-seen order of the values of a sequence (pandas Index.unique)
RECURSIVE unique(_)
unique(s) ==
    IF Len(s) = 0 THEN <<>>
    ELSE <<s[1]>> \o unique(SelectSeq(Tail(s), LAMBDA x : x # s[1]))

(***************************************************************************)
(* Dates: YYYYMMDD on the wire, pd.to_datetime parses them                 *)
(***************************************************************************)
WireDate(k) == IF k = 1 THEN 20231229 ELSE 20240100 + (k - 1)

to_datetime(w) ==
    [year |-> w \div 10000, month |-> (w \div 100) % 100, day |-> w % 100]

DateKey(t) == (t.year * 12 + t.month) * 31 + t.day
DateLE(a, b) == DateKey(a) <= DateKey(b)

IsSorted(idx) == \A n \in 1..(Len(idx) - 1) : DateLE(idx[n], idx[n + 1])

RECURSIVE SortDates(_)
SortDates(S) ==
    IF S = {} THEN <<>>
    ELSE LET m == CHOOSE x \in S : \A y \in S : DateLE(x, y)
         IN <<m>> \o SortDates(S \ {m})

\* the orders of the positions of idx that put its dates ascending: the
\* positions of one date in any order, date after date
RECURSIVE AscendingOrders(_, _)
AscendingOrders(dates, idx) ==
    IF Len(dates) = 0 THEN {<<>>}
    ELSE {g \o rest : g \in PermSeqs({n \in DOMAIN idx : idx[n] = dates[1]}),
                      rest \in AscendingOrders(Tail(dates), idx)}

RECURSIVE Repeat(_, _)
Repeat(x, n) == IF n = 0 THEN <<>> ELSE <<x>> \o Repeat(x, n - 1)

RECURSIVE Flatten(_)
Flatten(ss) == IF ss = <<>> THEN <<>> ELSE Head(ss) \o Flatten(Tail(ss))

(***************************************************************************)
(* The provider                                                            *)
(***************************************************************************)
\* at most MaxRows rows; a second copy of a row only beside its first
Markets ==
    {m \in SUBSET (Symbols \X Days \X {1, 2}) :
        /\ Cardinality(m) <= MaxRows
        /\ \A r \in m : r[3] = 2 => <<r[1], r[2], 1>> \in m
        /\ Cardinality({r \in m : r[3] = 2}) <= 1}

DailyColumns == {"open", "high", "low", "close", "pre_close", "change",
                 "pct_chg", "vol", "amount"}
\* the columns daily_basic serves; it has no "vol"
ProviderFactors == {"close", "total_mv", "pe_ttm", "pb"}

RECURSIVE Join(_)
Join(l) ==
    IF Len(l) = 0 THEN ""
    ELSE IF Len(l) = 1 THEN l[1]
    ELSE l[1] \o "," \o Join(Tail(l))

\* the provider reads the comma-joined list back
SplitCodes(arg) ==
    LET lists == SeqsUpTo(Symbols, 2)
    IN IF \E l \in lists : Join(l) = arg
       THEN Range(CHOOSE l \in lists : Join(l) = arg)
       ELSE {}

ProviderRows(arg) ==
    UNION {{[trade_date |-> WireDate(r[2]), ts_code |-> r[1], id |-> r] :
               r \in {m \in market : m[1] \in asked}} : asked \in {SplitCodes(arg)}}

\* the value of raw field f in a provider row
RawVal(row, f) == <<row.id[1], row.id[2], row.id[3], f>>
NaN == <<"NaN", 0, 0, "NaN">>

ResponseColumns(k, requested) ==
    IF k = "price" THEN DailyColumns ELSE Range(requested) \cap ProviderFactors

(***************************************************************************)
(* Results                                                                 *)
(***************************************************************************)
EmptyTable == [index |-> <<>>, columns |-> <<>>, data |-> <<>>]
Pending == [kind |-> "pending", err |-> "", table |-> EmptyTable]
NoneResult == [kind |-> "None", err |-> "", table |-> EmptyTable]
Raise(e) == [kind |-> "error", err |-> e, table |-> EmptyTable]
Return(t) == [kind |-> "table", err |-> "", table |-> t]
\* the benchmark frame is a list of rows
NoSeries == [kind |-> "pending", err |-> "", table |-> <<>>]
RaiseSeries(e) == [kind |-> "error", err |-> e, table |-> <<>>]

(***************************************************************************)
(* Field names                                                             *)
(***************************************************************************)
field_mapping ==
    ("open" :> "Open") @@ ("high" :> "High") @@ ("low" :> "Low") @@
    ("close" :> "Close") @@ ("vol" :> "Volume")

\* a KeyError of the dict lookup, raised while the list is built
UnknownField(k, fs) ==
    k = "price" /\ \E n \in DOMAIN fs : fs[n] \notin DOMAIN field_mapping

\* faulty variant: a name the mapping does not know is left out
mapped_fields_dropping(k, fs) ==
    IF k = "price"
    THEN LET known == SelectSeq(fs, LAMBDA f : f \in DOMAIN field_mapping)
         IN [known |-> TRUE, names |-> [n \in DOMAIN known |-> field_mapping[known[n]]]]
    ELSE [known |-> TRUE, names |-> fs]

\* the column names of the wide table, or the KeyError; the factor
\* operations use the names as given
mapped_fields(k, fs) ==
    IF UnknownField(k, fs)
    THEN [known |-> FALSE, names |-> <<>>]
    ELSE [known |-> TRUE,
          names |-> IF k = "price" THEN [n \in DOMAIN fs |-> field_mapping[fs[n]]] ELSE fs]

(***************************************************************************)
(* pandas                                                                  *)
(***************************************************************************)
\* faulty variant: the frames are joined last first
concat_reversed(frames) ==
    Flatten([n \in DOMAIN frames |-> frames[Len(frames) + 1 - n]])

\* pd.concat(all_data): the frames' rows, frame after frame
concat(frames) == Flatten(frames)

\* trade_date parsed, (trade_date, ts_code) made the index
set_index(rows) ==
    [n \in DOMAIN rows |->
        [trade_date |-> to_datetime(rows[n].trade_date),
         ts_code |-> rows[n].ts_code,
         id |-> rows[n].id]]

\* faulty variant: a column for every requested symbol, rows or not
unique_ts_code_requested(rows) == unique(stock_list)

\* index.get_level_values('ts_code').unique()
unique_ts_code(rows) == unique([n \in DOMAIN rows |-> rows[n].ts_code])

\* combined_data.loc[ts_code == stock, field].droplevel('ts_code')
Series(rows, stock, rawfield) ==
    LET mine == SelectSeq(rows, LAMBDA r : r.ts_code = stock)
    IN [index |-> [n \in DOMAIN mine |-> mine[n].trade_date],
        values |-> [n \in DOMAIN mine |-> RawVal(mine[n], rawfield)]]

\* union of the series' indexes: the first as it is when all are equal,
\* otherwise every date, ascending, as often as the index that repeats it most
union_indexes(idxs) ==
    IF \A n \in DOMAIN idxs : idxs[n] = idxs[1]
    THEN idxs[1]
    ELSE LET dates == SortDates(UNION {Range(idxs[n]) : n \in DOMAIN idxs})
             times(d) == CHOOSE c \in 0..Len(Flatten(idxs)) :
                             /\ \E n \in DOMAIN idxs : Count(idxs[n], d) = c
                             /\ \A n \in DOMAIN idxs : Count(idxs[n], d) <= c
         IN Flatten([n \in DOMAIN dates |-> Repeat(dates[n], times(dates[n]))])

\* Series.reindex(index): itself when the index is the same, a ValueError
\* when its own index repeats a label, otherwise by label, NaN where absent
CanReindex(ser, idx) == ser.index = idx \/ ~HasDup(ser.index)

reindex(ser, idx) ==
    IF ser.index = idx THEN ser.values
    ELSE [r \in DOMAIN idx |->
            IF idx[r] \in Range(ser.index)
            THEN ser.values[FirstPos(ser.index, idx[r])]
            ELSE NaN]

\* the frame on index idx: every series aligned to it
Assemble(keys, sers, idx) ==
    IF \E n \in DOMAIN sers : ~CanReindex(sers[n], idx)
    THEN Raise("ValueError")
    ELSE Return([index |-> idx,
                 columns |-> keys,
                 data |-> [r \in DOMAIN idx |->
                             [n \in DOMAIN keys |-> reindex(sers[n], idx)[r]]]])

\* pd.DataFrame(new_structure_data): keys in insertion order
DataFrame(keys, sers) ==
    IF Len(keys) = 0 THEN Return(EmptyTable)
    ELSE CHOOSE df \in {Assemble(keys, sers, idx) :
                           idx \in {union_indexes([n \in DOMAIN sers |-> sers[n].index])}} : TRUE

Permute(t, p) ==
    [index |-> [r \in DOMAIN p |-> t.index[p[r]]],
     columns |-> t.columns,
     data |-> [r \in DOMAIN p |-> t.data[p[r]]]]

\* faulty variant: the rows stay as assembled
sort_index_skipped(t) == {t}

\* sort_index(ascending=True): unchanged when already ascending; rows of one
\* date keep no promised order among themselves
sort_index(t) ==
    IF IsSorted(t.index) THEN {t}
    ELSE {Permute(t, p) : p \in AscendingOrders(SortDates(Range(t.index)), t.index)}

(***************************************************************************)
(* The reshaping stage shared by the four fetch operations                 *)
(***************************************************************************)
\* the dictionary new_structure_data, filled symbol by symbol and field by
\* field, made a frame and sorted
Pivot(k, indexed, stocks) ==
    LET names == mapped_fields(k, fields).names
        nf == Len(names)
        cells == 1..(Len(stocks) * nf)
        stockOf(n) == stocks[((n - 1) \div nf) + 1]
        nameOf(n) == names[((n - 1) % nf) + 1]
        keys == [n \in cells |-> <<stockOf(n), nameOf(n)>>]
        sers == [n \in cells |->
                   Series(indexed, stockOf(n), fields[FirstPos(names, nameOf(n))])]
    IN UNION {IF df.kind = "error" THEN {df}
              ELSE {Return(t) : t \in sort_index(df.table)} :
                 df \in {DataFrame(keys, sers)}}

\* rows: the long table; cols: the columns the provider sent
Reshape(k, rows, cols) ==
    IF \E n \in DOMAIN fields : fields[n] \notin cols
    THEN {Raise("KeyError")}
    ELSE UNION {UNION {Pivot(k, indexed, stocks) : stocks \in {unique_ts_code(indexed)}} :
                   indexed \in {set_index(rows)}}

(***************************************************************************)
(* The fetch operations                                                    *)
(***************************************************************************)
Api(k) == IF k = "price" THEN "daily" ELSE "daily_basic"

\* df['ts_code'] = stock
assign_ts_code(frame, stock) ==
    [n \in DOMAIN frame |-> [frame[n] EXCEPT !.ts_code = stock]]

\* an operation ends: the caller goes on to the next one
End(op) ==
    /\ todo' = Tail(todo)
    /\ last' = op

\* the end of a sequential operation that reached the reshaping stage
FinishSequential(k, frames) ==
    /\ long' = concat(frames)
    /\ reshaped' = TRUE
    /\ \E r \in Reshape(k, long', ResponseColumns(k, fields)) : seqResult' = r
    /\ End("sequential")

\* one more symbol done: the next one, or the reshaping after the last
Continue(k, frames) ==
    /\ i' = i + 1
    /\ all_data' = frames
    /\ IF i + 1 < Len(stock_list)
       THEN UNCHANGED <<long, reshaped, seqResult, todo, last>>
       ELSE FinishSequential(k, frames)

\* faulty variant: the failed symbol is skipped
swallow_failure(k) == Continue(k, all_data)

\* nothing catches the exception of a remote call
propagate_failure(k) ==
    /\ seqResult' = Raise("RemoteError")
    /\ End("sequential")
    /\ UNCHANGED <<i, all_data, long, reshaped>>

Call(k, arg, ok) == [api |-> Api(k), ts_code |-> arg, ok |-> ok]

Sequential(k) ==
    /\ todo # <<>>
    /\ Head(todo) = "sequential"
    /\ kind = k
    /\ UNCHANGED <<market, stock_list, fields, kind, batCalls, batResult,
                   truncated, raw, benchmark>>
    /\ IF ~mapped_fields(k, fields).known
       THEN /\ seqResult' = Raise("KeyError")
            /\ End("sequential")
            /\ UNCHANGED <<i, all_data, seqCalls, long, reshaped>>
       ELSE LET stock == stock_list[i + 1]
            IN \/ /\ seqCalls' = Append(seqCalls, Call(k, stock, FALSE))
                  /\ propagate_failure(k)
               \/ /\ seqCalls' = Append(seqCalls, Call(k, stock, TRUE))
                  /\ \E df \in PermSeqs(ProviderRows(stock)) :
                        Continue(k, Append(all_data, assign_ts_code(df, stock)))

\* faulty variant: the empty answer is reshaped like any other
frame_empty_never(df) == FALSE

\* df_all.empty
frame_empty(df) == Len(df) = 0

Batch(k) ==
    /\ todo # <<>>
    /\ Head(todo) = "batch"
    /\ kind = k
    /\ End("batch")
    /\ UNCHANGED <<market, stock_list, fields, kind, i, all_data, seqCalls,
                   seqResult, raw, benchmark>>
    /\ IF ~mapped_fields(k, fields).known
       THEN /\ batResult' = Raise("KeyError")
            /\ long' = <<>>
            /\ reshaped' = FALSE
            /\ UNCHANGED <<batCalls, truncated>>
       ELSE LET arg == Join(stock_list)
            IN \/ /\ batCalls' = Append(batCalls, Call(k, arg, FALSE))
                  /\ batResult' = Raise("RemoteError")
                  /\ long' = <<>>
                  /\ reshaped' = FALSE
                  /\ UNCHANGED truncated
               \/ /\ batCalls' = Append(batCalls, Call(k, arg, TRUE))
                  /\ \E all \in PermSeqs(ProviderRows(arg)) :
                       \E n \in 0..Len(all) :
                         LET df_all == SubSeq(all, 1, n)
                         IN /\ truncated' = (n < Len(all))
                            /\ long' = df_all
                            /\ IF frame_empty(df_all)
                               THEN /\ batResult' = NoneResult
                                    /\ reshaped' = FALSE
                               ELSE /\ reshaped' = TRUE
                                    /\ \E r \in Reshape(k, df_all, ResponseColumns(k, fields)) :
                                          batResult' = r

get_prices_from_tushare == Sequential("price")
get_factors_from_tushare == Sequential("factor")
get_prices_from_tushare_parallel == Batch("price")
get_factors_from_tushare_parallel == Batch("factor")

\* a handler, the provider's data, and the arguments of the calls to come
Start(lists, plans) ==
    /\ market \in Markets
    /\ stock_list \in lists
    /\ fields \in FieldChoices
    /\ kind \in {"price", "factor"}
    /\ todo \in plans
    /\ last = "none"
    /\ i = 0
    /\ all_data = <<>>
    /\ seqCalls = <<>>
    /\ batCalls = <<>>
    /\ long = <<>>
    /\ reshaped = FALSE
    /\ seqResult = Pending
    /\ batResult = Pending
    /\ truncated = FALSE
    /\ raw = <<>>
    /\ benchmark = NoSeries

\* one fetch operation, of either strategy
Init == Start(StockLists, {<<"sequential">>, <<"batch">>})

Next ==
    \/ get_prices_from_tushare
    \/ get_factors_from_tushare
    \/ get_prices_from_tushare_parallel
    \/ get_factors_from_tushare_parallel

Spec == Init /\ [][Next]_vars

\* the sequential operation, then the combined one with the same arguments
\* against the same provider data
InitCompare == Start(UniqueStockLists, {<<"sequential", "batch">>})

SpecCompare == InitCompare /\ [][Next]_vars

(***************************************************************************)
(* The benchmark series                                                    *)
(***************************************************************************)
RECURSIVE Pow(_, _)
Pow(b, n) == IF n = 0 THEN 1 ELSE b * Pow(b, n - 1)

\* the value 1.0 at position n: position n is held in units of PctUnit^-n
One(n) == Pow(PctUnit, n)

RawSeries ==
    SeqsUpTo({[trade_date |-> WireDate(d), pct_chg |-> p] : d \in Days, p \in PctValues},
             MaxLen)

\* sort_values(by='trade_date'): rows of one date keep no promised order
sort_values(rows) ==
    LET idx == [n \in DOMAIN rows |-> rows[n].trade_date]
    IN {[n \in DOMAIN q |-> rows[q[n]]] : q \in AscendingOrders(SortDates(Range(idx)), idx)}

\* (1 + pct_chg / 100).cumprod()
RECURSIVE cumprod(_, _)
cumprod(rows, n) ==
    IF n = 0 THEN 1 ELSE cumprod(rows, n - 1) * (PctUnit + rows[n].pct_chg)

\* faulty variant: the first value is left as computed
set_first_skipped(rows, nv) == nv

\* .loc[index[0], 'benchmark_net_value'] = 1.0: every row of that label
set_first(rows, nv) ==
    [n \in DOMAIN nv |->
        IF rows[n].trade_date = rows[1].trade_date THEN One(n) ELSE nv[n]]

normalize(rows) ==
    LET nv == set_first(rows, [n \in DOMAIN rows |-> cumprod(rows, n)])
    IN [n \in DOMAIN rows |->
          [trade_date |-> rows[n].trade_date,
           pct_chg |-> rows[n].pct_chg,
           benchmark_net_value |-> nv[n]]]

get_index_prices_from_tushare ==
    /\ todo # <<>>
    /\ Head(todo) = "index"
    /\ End("index")
    /\ UNCHANGED <<market, stock_list, fields, kind, i, all_data, seqCalls,
                   batCalls, long, reshaped, seqResult, batResult, truncated>>
    /\ \/ /\ UNCHANGED raw
          /\ benchmark' = RaiseSeries("RemoteError")
       \/ /\ UNCHANGED raw
          /\ LET parsed == [n \in DOMAIN raw |->
                              [raw[n] EXCEPT !.trade_date = to_datetime(raw[n].trade_date)]]
             IN IF Len(raw) = 0
                THEN benchmark' = RaiseSeries("IndexError")
                ELSE \E rows \in sort_values(parsed) :
                        benchmark' = [kind |-> "table", err |-> "", table |-> normalize(rows)]

InitIndex ==
    /\ market = {}
    /\ stock_list = <<>>
    /\ fields = <<>>
    /\ kind = "index"
    /\ todo = <<"index">>
    /\ last = "none"
    /\ i = 0
    /\ all_data = <<>>
    /\ seqCalls = <<>>
    /\ batCalls = <<>>
    /\ long = <<>>
    /\ reshaped = FALSE
    /\ seqResult = Pending
    /\ batResult = Pending
    /\ truncated = FALSE
    /\ raw \in RawSeries
    /\ benchmark = NoSeries

NextIndex == get_index_prices_from_tushare

SpecIndex == InitIndex /\ [][NextIndex]_vars

(***************************************************************************)
(* What the claims speak of                                                *)
(***************************************************************************)
LastResult == IF last = "sequential" THEN seqResult ELSE batResult
Reached == last \in {"sequential", "batch"} /\ reshaped
ReturnedTable == Reached /\ LastResult.kind = "table"
Wide == LastResult.table

\* the long table with its dates parsed
LongRows == [n \in DOMAIN long |->
               [long[n] EXCEPT !.trade_date = to_datetime(long[n].trade_date)]]
LongSymbols == {long[n].ts_code : n \in DOMAIN long}
LongDates == {LongRows[n].trade_date : n \in DOMAIN long}
DuplicateKey ==
    \E a, b \in DOMAIN long :
        a < b /\ long[a].trade_date = long[b].trade_date /\ long[a].ts_code = long[b].ts_code

canonical(f) == IF kind = "price" THEN field_mapping[f] ELSE f

\* the requested field whose canonical name is name
RawField(name) == CHOOSE f \in Range(fields) : canonical(f) = name

NoRemoteFailure ==
    /\ \A n \in DOMAIN seqCalls : seqCalls[n].ok
    /\ \A n \in DOMAIN batCalls : batCalls[n].ok

(***************************************************************************)
(* C6: the rows of every returned wide table are in ascending date order,  *)
(* whatever order the long rows arrived in, for either strategy.           *)
(***************************************************************************)
C6_RowsAscending ==
    /\ seqResult.kind = "table" =>
          \A r \in 1..(Len(seqResult.table.index) - 1) :
              DateKey(seqResult.table.index[r]) <= DateKey(seqResult.table.index[r + 1])
    /\ batResult.kind = "table" =>
          \A r \in 1..(Len(batResult.table.index) - 1) :
              DateKey(batResult.table.index[r]) <= DateKey(batResult.table.index[r + 1])

\* a table of several rows made from long rows that arrived latest first
C6_Witness ==
    /\ ReturnedTable
    /\ Len(Wide.index) >= 2
    /\ Len(long) >= 2
    /\ \A n \in 1..(Len(long) - 1) : long[n].trade_date > long[n + 1].trade_date

CellsFromLong ==
    \A r \in DOMAIN Wide.index, n \in DOMAIN Wide.columns :
        LET here == {m \in DOMAIN long :
                        /\ long[m].ts_code = Wide.columns[n][1]
                        /\ LongRows[m].trade_date = Wide.index[r]}
        IN IF here = {}
           THEN Wide.data[r][n] = NaN
           ELSE \E m \in here : Wide.data[r][n] = RawVal(long[m], RawField(Wide.columns[n][2]))

C5_RowsAndCells ==
    ReturnedTable =>
        /\ Range(Wide.index) = LongDates
        /\ ~HasDup(Wide.index)
        /\ CellsFromLong

\* what remains of C5 when no (date, symbol) key repeats in the long table
C5_WithoutDuplicates == (ReturnedTable /\ ~DuplicateKey) => C5_RowsAndCells

(***************************************************************************)
(* C10: a long table with two rows of one (trade_date, symbol) key ends in *)
(* an error, never in a wide table.                                        *)
(***************************************************************************)
C10_DuplicatesReported == (Reached /\ DuplicateKey) => LastResult.kind = "error"

(***************************************************************************)
(* C7 as stated: in every fetch operation a requested field outside the    *)
(* normalization mapping fails before any remote call.                     *)
(***************************************************************************)
OutsideMapping == \E n \in DOMAIN fields : fields[n] \notin DOMAIN field_mapping

RejectedBeforeAnyCall ==
    /\ seqCalls = <<>>
    /\ batCalls = <<>>
    /\ last = "sequential" => seqResult = Raise("KeyError")
    /\ last = "batch" => batResult = Raise("KeyError")

Answered == batCalls # <<>> /\ batCalls[Len(batCalls)].ok

C8_BatchOneCallEmptyIsNone ==
    last = "batch" =>
        /\ Len(batCalls) <= 1
        /\ ~(kind = "price" /\ OutsideMapping) => Len(batCalls) = 1
        /\ \A n \in DOMAIN batCalls : batCalls[n].ts_code = Join(stock_list)
        /\ (batCalls # <<>> /\ stock_list = <<"BBB", "AAA">>) => batCalls[1].ts_code = "BBB,AAA"
        /\ (Answered /\ long = <<>>) => (batResult = NoneResult /\ ~reshaped)
        /\ (Answered /\ long # <<>>) => (batResult.kind # "None" /\ reshaped)
        /\ batResult.kind = "None" => (Answered /\ long = <<>>)

\* the provider holds rows of the symbols asked for and answers with none
C8_Witness ==
    /\ last = "batch"
    /\ batResult = NoneResult
    /\ batCalls = <<[api |-> "daily", ts_code |-> "BBB,AAA", ok |-> TRUE]>>
    /\ \E m \in market : m[1] \in Range(stock_list)

(***************************************************************************)
(* C9: the sequential operation calls once per symbol in input order; a    *)
(* failed call is the last one, and the operation ends in that failure.    *)
(***************************************************************************)
C9_SequentialFailFast ==
    /\ Len(seqCalls) <= Len(stock_list)
    /\ \A n \in DOMAIN seqCalls : seqCalls[n].ts_code = stock_list[n]
    /\ \A n \in DOMAIN seqCalls :
          ~seqCalls[n].ok => (n = Len(seqCalls) /\ seqResult = Raise("RemoteError"))
    /\ seqResult.kind = "table" => Len(seqCalls) = Len(stock_list)
    /\ (last = "sequential" /\ seqResult.kind # "error") => Len(seqCalls) = Len(stock_list)

\* the first of two calls fails: the second symbol is never asked for
C9_Witness ==
    /\ last = "sequential"
    /\ Len(stock_list) = 2
    /\ Len(seqCalls) = 1
    /\ ~seqCalls[1].ok
    /\ seqResult = Raise("RemoteError")

(***************************************************************************)
(* C1 as stated: with no failed call and no truncation, the sequential and *)
(* the combined operation return the identical wide table, whatever order  *)
(* the provider answers in.  Stated here for the answers that hold rows,   *)
(* one per (date, symbol).                                                 *)
(***************************************************************************)
Comparable == last = "batch" /\ seqResult.kind # "pending" /\ NoRemoteFailure /\ ~truncated

ColumnSymbols(t) == unique([n \in DOMAIN t.columns |-> t.columns[n][1]])

CellUnder(t, r, key) == t.data[r][FirstPos(t.columns, key)]

SameUnderKeys(a, b) ==
    /\ a.index = b.index
    /\ Range(a.columns) = Range(b.columns)
    /\ Len(a.columns) = Len(b.columns)
    /\ \A r \in DOMAIN a.index : \A key \in Range(a.columns) :
          CellUnder(a, r, key) = CellUnder(b, r, key)

C2_NetValueRecurrence ==
    (/\ benchmark.kind = "table"
     /\ ~HasDup([n \in DOMAIN raw |-> raw[n].trade_date])) =>
        /\ benchmark.table[1].benchmark_net_value = PctUnit
        /\ \A n \in 2..Len(benchmark.table) :
              benchmark.table[n].benchmark_net_value =
                  benchmark.table[n - 1].benchmark_net_value
                      * (PctUnit + benchmark.table[n].pct_chg)

(***************************************************************************)
(* C3: for a non-empty index series, in whatever order it arrives, the     *)
(* benchmark_net_value on the earliest trade date is exactly 1.0.          *)
(***************************************************************************)
Earliest(t, n) == \A m \in DOMAIN t : DateKey(t[n].trade_date) <= DateKey(t[m].trade_date)

C3_FirstValueIsOne ==
    /\ benchmark.kind = "table" =>
          /\ Len(benchmark.table) = Len(raw)
          /\ Earliest(benchmark.table, 1)
          /\ \A n \in DOMAIN benchmark.table :
                Earliest(benchmark.table, n) =>
                    benchmark.table[n].benchmark_net_value = One(n)
    /\ (last = "index" /\ raw # <<>> /\ benchmark.err # "RemoteError") =>
          benchmark.kind = "table"

\* three dates answered latest first
C3_Witness ==
    /\ benchmark.kind = "table"
    /\ Len(raw) = 3
    /\ raw[1].trade_date > raw[2].trade_date
    /\ raw[2].trade_date > raw[3].trade_date
    /\ benchmark.table[1].pct_chg # 0
    /\ benchmark.table[1].benchmark_net_value = PctUnit

====
